---- MODULE Spec2Model ----
(***************************************************************************)
(* Model of the selector package: the selection strategies                 *)
(* (selector/strategy.go), the filter pipeline (selector/filter.go), the   *)
(* health checker's probe (selector/strategy.go, second half) and the      *)
(* selector construction of the configuration parser.                      *)
(*                                                                         *)
(* Several specifications share the variables below; each one drives the   *)
(* group of variables it is about and leaves the other groups at their     *)
(* initial value:                                                          *)
(*   SpecRR    - concurrent callers of roundRobinStrategy.Apply            *)
(*   SpecPure   - the three filters applied to enumerated candidate lists  *)
(*   SpecSelect - Select applied to enumerated candidate lists             *)
(*   SpecSys    - markers, clock, Select and outcome reporting over time   *)
(*   SpecProbe  - HealthChecker.check with its TCP / HTTP probe            *)
(*   SpecLoop   - one HealthChecker loop: Start, passes, ticks, Stop       *)
(*   SpecLoopFair - SpecLoop with the fairness of the Go scheduler         *)
(*   SpecLife   - Start and Stop called in any order on one HealthChecker  *)
(*   SpecLeastConn - leastConnStrategy.Apply on enumerated candidates      *)
(*   SpecCoerce - the filters with non-positive thresholds and timeouts    *)
(***************************************************************************)
EXTENDS Integers, Sequences, FiniteSets, TLC

VARIABLES
    counter,   \* roundRobinStrategy.counter (uint64)
    rrPc,      \* per caller: position inside roundRobinStrategy.Apply
    rrArg,     \* per caller: the vs argument of the call in progress
    rrN,       \* per caller: the local n (pre-increment counter value)
    rrRet,     \* per caller: value returned by its last completed call
    rrLog,     \* history: one entry per atomic add, in the order of the adds
    rrCalls,   \* history: number of Apply calls entered so far
    now,       \* the wall clock, time.Now()
    cfg,       \* the SelectorConfig the selector and its filters are built from
    pIn,       \* the candidate list handed to a filter or to Select
    pOut,      \* the last filter application: which filter, what it returned
    markers,   \* per node: its Marker (failure count, time of the last failure)
    nodes,     \* per node: its fixed attributes (address set, backup flag)
    hc,        \* HealthChecker.config (Type, ExpectStatus)
    lastSel,   \* history: the last Select (returned candidate, strategy input)
    lastOp,    \* history: the last operation on the markers and its outcome
    hcCancel,  \* HealthChecker.cancelFunc: 0 is nil, k cancels the k-th context
    loops      \* one entry per Start: the run goroutine and its context

rrVars == <<counter, rrPc, rrArg, rrN, rrRet, rrLog, rrCalls>>
pureVars == <<cfg, pIn, pOut>>
sysVars == <<markers, nodes, hc, lastSel, lastOp>>

loopVars == <<hcCancel, loops>>

vars == <<rrVars, now, pureVars, sysVars, loopVars>>

\* ------------------------------------------------------------------ bounds
NProcs == 2        \* concurrent callers of one strategy instance
RRMaxLen == 3      \* longest candidate list handed to RoundRobin
MaxCalls == 4      \* Apply calls per behaviour
MaxLen == 3        \* longest candidate list handed to a filter
MaxCount == 2      \* largest failure count a marker reaches
MaxNow == 2        \* clock ticks (seconds) per behaviour

\* ======================================================== candidates
\* A candidate as the filters see it, through its optional capabilities:
\*   markable  - it is selector.Markable and Marker() is not nil
\*   count     - Marker().Count();  time - Marker().Time()
\*   md        - it is metadata.Metadatable and Metadata() is not nil
\*   hasMaxFails / mdMaxFails       - md.IsExists("maxFails") and its value
\*   hasFailTimeout / mdFailTimeout - md.IsExists("failTimeout") and its value
\*   backup    - the boolean value of the "backup" key
Cand(id, markable, count, time, md, hasMF, mf, hasFT, ft, backup) ==
    [id |-> id, markable |-> markable, count |-> count, time |-> time,
     md |-> md, hasMaxFails |-> hasMF, mdMaxFails |-> mf,
     hasFailTimeout |-> hasFT, mdFailTimeout |-> ft, backup |-> backup]

\* The value Select returns when nothing is eligible: the zero value of T.
NilCand == Cand(0, FALSE, 0, 0, FALSE, FALSE, 0, FALSE, 0, FALSE)

\* ------------------------------------------------------- generic helpers
Range(s) == {s[i] : i \in 1..Len(s)}

Procs == 1..NProcs

\* The zero value of the candidate type T (candidates are numbered from 1).
ZeroCand == 0

\* The candidate lists handed to a strategy: <<1>>, <<1,2>>, ... and <<>>.
RRLists == {[i \in 1..n |-> i] : n \in 0..RRMaxLen}

\* ------------------------------------------------- roundRobinStrategy.Apply
\* atomic.AddUint64(&s.counter, 1): the new value of the counter.  The counter
\* is a uint64; within MaxCalls calls from 0 it never wraps.
AtomicAddUint64(c) == c + 1

\* Mutant of RRIndex: the "- 1" of line 42 forgotten, so the post-increment
\* value indexes the list.
RRIndexPostIncrement(n, vs) == vs[((n + 1) % Len(vs)) + 1]

\* vs[int(n % uint64(len(vs)))], with TLA+ sequences indexed from 1.
RRIndex(n, vs) == vs[(n % Len(vs)) + 1]

\* Entry of Apply, lines 37-40: an empty list returns the zero value at once.
RRApply(p, vs) ==
    /\ rrPc[p] = "idle"
    /\ rrCalls < MaxCalls
    /\ rrCalls' = rrCalls + 1
    /\ rrArg' = [rrArg EXCEPT ![p] = vs]
    /\ IF Len(vs) = 0
          THEN /\ rrRet' = [rrRet EXCEPT ![p] = ZeroCand]
               /\ rrPc' = rrPc
          ELSE /\ rrPc' = [rrPc EXCEPT ![p] = "add"]
               /\ rrRet' = rrRet
    /\ UNCHANGED <<counter, rrN, rrLog, now, pureVars, sysVars,
                   loopVars>>

\* Mutant of RRAdd: a plain load / store pair instead of the atomic add.  A
\* caller that overlaps another caller between its add and its return reads
\* the value that caller read, and the two stores write the same value.
RRAddNotAtomic(p) ==
    /\ rrPc[p] = "add"
    /\ counter' = IF \E q \in Procs \ {p} : rrPc[q] = "ret"
                     THEN counter ELSE counter + 1
    /\ rrN' = [rrN EXCEPT ![p] = counter' - 1]
    /\ rrLog' = Append(rrLog, [p |-> p, vs |-> rrArg[p], n |-> counter' - 1,
                               ret |-> ZeroCand])
    /\ rrPc' = [rrPc EXCEPT ![p] = "ret"]
    /\ UNCHANGED <<rrArg, rrRet, rrCalls, now, pureVars, sysVars,
                   loopVars>>

\* Line 42: n := atomic.AddUint64(&s.counter, 1) - 1, one indivisible step.
RRAdd(p) ==
    /\ rrPc[p] = "add"
    /\ counter' = AtomicAddUint64(counter)
    /\ rrN' = [rrN EXCEPT ![p] = counter' - 1]
    /\ rrLog' = Append(rrLog, [p |-> p, vs |-> rrArg[p], n |-> counter' - 1,
                               ret |-> ZeroCand])
    /\ rrPc' = [rrPc EXCEPT ![p] = "ret"]
    /\ UNCHANGED <<rrArg, rrRet, rrCalls, now, pureVars, sysVars,
                   loopVars>>

\* Position in rrLog of caller p's call in progress (its latest add).
LastEntryOf(p) ==
    CHOOSE i \in 1..Len(rrLog) :
        /\ rrLog[i].p = p
        /\ \A j \in (i+1)..Len(rrLog) : rrLog[j].p # p

\* Line 43: return vs[int(n % uint64(len(vs)))].
RRReturn(p) ==
    /\ rrPc[p] = "ret"
    /\ LET v == RRIndex(rrN[p], rrArg[p]) IN
         /\ rrRet' = [rrRet EXCEPT ![p] = v]
         /\ rrLog' = [rrLog EXCEPT ![LastEntryOf(p)].ret = v]
    /\ rrPc' = [rrPc EXCEPT ![p] = "idle"]
    /\ UNCHANGED <<counter, rrArg, rrN, rrCalls, now, pureVars, sysVars,
                   loopVars>>

\* The groups of variables a specification does not drive.
RRIdle ==
    /\ counter = 0
    /\ rrPc = [p \in Procs |-> "idle"]
    /\ rrArg = [p \in Procs |-> <<>>]
    /\ rrN = [p \in Procs |-> 0]
    /\ rrRet = [p \in Procs |-> ZeroCand]
    /\ rrLog = <<>>
    /\ rrCalls = 0

PureIdle ==
    /\ cfg = [strategy |-> "rr", healthCheck |-> FALSE,
              maxFails |-> 0, failTimeout |-> 0]
    /\ pIn = <<>>
    /\ pOut = [kind |-> "none", out |-> <<>>, again |-> <<>>]

SysIdle ==
    /\ markers = <<>>
    /\ nodes = <<>>
    /\ hc = [type |-> "tcp", expectStatus |-> 200]
    /\ lastSel = [ret |-> NilCand, n |-> -1]
    /\ lastOp = [op |-> "none", node |-> 0, err |-> FALSE, status |-> 0,
                 failed |-> FALSE]

\* No HealthChecker has been started.
LoopIdle ==
    /\ hcCancel = 0
    /\ loops = <<>>

InitRR ==
    /\ now = 0
    /\ PureIdle
    /\ SysIdle
    /\ LoopIdle
    /\ counter = 0
    /\ rrPc = [p \in Procs |-> "idle"]
    /\ rrArg = [p \in Procs |-> <<>>]
    /\ rrN = [p \in Procs |-> 0]
    /\ rrRet = [p \in Procs |-> ZeroCand]
    /\ rrLog = <<>>
    /\ rrCalls = 0

NextRR ==
    \/ \E p \in Procs, vs \in RRLists : RRApply(p, vs)
    \/ \E p \in Procs : RRAdd(p)
    \/ \E p \in Procs : RRReturn(p)

SpecRR == InitRR /\ [][NextRR]_vars

\* ------------------------------------------------------ claims on SpecRR
RRDone(i) == rrLog[i].ret # ZeroCand

RRPos(i) == CHOOSE k \in 1..Len(rrLog[i].vs) : rrLog[i].vs[k] = rrLog[i].ret

\* The calls i .. i+N-1 are N completed calls on one list of length N.
RRWindow(i) ==
    LET N == Len(rrLog[i].vs) IN
    /\ i + N - 1 <= Len(rrLog)
    /\ \A j \in i..(i + N - 1) : RRDone(j) /\ rrLog[j].vs = rrLog[i].vs

\* C1: on an unchanged non-empty list of length N, a fresh strategy returns
\* the first candidate, each call returns the candidate following (cyclically,
\* in list order) the one the previous call on that list returned, and N
\* successive calls return every candidate of the list exactly once.  (The
\* i-th call that reaches the counter returns index (i-1) mod N of its list,
\* whatever lists the earlier calls were given.)
C1_RoundRobinCycle ==
    /\ \A i \in 1..Len(rrLog) :
          RRDone(i) => rrLog[i].ret = rrLog[i].vs[((i - 1) % Len(rrLog[i].vs)) + 1]
    /\ (Len(rrLog) >= 1 /\ RRDone(1)) => rrLog[1].ret = rrLog[1].vs[1]
    /\ \A i \in 1..(Len(rrLog) - 1) :
          (RRDone(i) /\ RRDone(i + 1) /\ rrLog[i + 1].vs = rrLog[i].vs)
             => RRPos(i + 1) = (RRPos(i) % Len(rrLog[i].vs)) + 1
    /\ \A i \in 1..Len(rrLog) :
          RRWindow(i) =>
             \A k \in 1..Len(rrLog[i].vs) :
                Cardinality({j \in i..(i + Len(rrLog[i].vs) - 1) :
                                rrLog[j].ret = rrLog[i].vs[k]}) = 1

\* A full cycle over a list of three or more candidates that does not start
\* at the first call of the strategy.
C1_Witness ==
    \E i \in 2..Len(rrLog) : Len(rrLog[i].vs) >= 3 /\ RRWindow(i)

\* C2: the K calls that have passed the atomic add have consumed the K
\* consecutive counter values 0 .. K-1, one each, in every interleaving; no
\* two calls in flight hold the same pre-increment value.
C2_DistinctCounterValues ==
    /\ counter = Len(rrLog)
    /\ \A i \in 1..Len(rrLog) : rrLog[i].n = i - 1
    /\ \A p, q \in Procs :
          (p # q /\ rrPc[p] = "ret" /\ rrPc[q] = "ret") => rrN[p] # rrN[q]

\* Two calls overlap: both have done their add and neither has returned.
C2_Witness ==
    \E p, q \in Procs : p # q /\ rrPc[p] = "ret" /\ rrPc[q] = "ret"

\* DefaultFailTimeout, in clock ticks of one second.
DefaultFailTimeout == 10

\* The time of a marker that never failed (the Unix epoch), and a clock value
\* far enough from it that every timeout of the model has elapsed since.
Epoch == 0
ClockStart == 4 * DefaultFailTimeout

\* time.Since(t) at clock value t0.
Since(t0, t) == t0 - t

ListsOver(S, n) == UNION {[1..k -> S] : k \in 0..n}

\* ======================================================== failFilter.Filter
\* Lines 33-47: the per-candidate maxFails, overridden by metadata, coerced.
EffMaxFailsNoCoerce(f, v) ==
    IF v.md /\ v.hasMaxFails THEN v.mdMaxFails ELSE f.maxFails

EffMaxFails(f, v) ==
    LET m == IF v.md /\ v.hasMaxFails THEN v.mdMaxFails ELSE f.maxFails
    IN  IF m <= 0 THEN 1 ELSE m

\* Lines 34-50: the per-candidate failTimeout, overridden by metadata, coerced.
EffFailTimeout(f, v) ==
    LET d == IF v.md /\ v.hasFailTimeout THEN v.mdFailTimeout ELSE f.failTimeout
    IN  IF d <= 0 THEN DefaultFailTimeout ELSE d

\* Mutant of FailKeep: dead only when the count is greater than maxFails.
FailKeepGreater(f, t, v) ==
    IF v.markable
       THEN \/ v.count <= EffMaxFails(f, v)
            \/ Since(t, v.time) >= EffFailTimeout(f, v)
       ELSE TRUE

\* Lines 52-61: whether the loop appends v to l.
FailKeep(f, t, v) ==
    IF v.markable
       THEN \/ v.count < EffMaxFails(f, v)
            \/ Since(t, v.time) >= EffFailTimeout(f, v)
       ELSE TRUE

\* Mutant of FailFilter: the loop starts at the second element.
FailFilterSkipFirst(f, t, vs) ==
    IF Len(vs) <= 1 THEN vs
    ELSE SelectSeq(Tail(vs), LAMBDA v : FailKeep(f, t, v))

\* Lines 27-64.
FailFilter(f, t, vs) ==
    IF Len(vs) <= 1 THEN vs
    ELSE SelectSeq(vs, LAMBDA v : FailKeep(f, t, v))

\* ================================================= healthCheckFilter.Filter
\* Lines 80-83: the filter's maxFails, coerced; metadata is not consulted.
HealthMaxFails(f) == IF f.maxFails <= 0 THEN 1 ELSE f.maxFails

\* Mutant of HealthKeep: the cooldown of FailFilter copied into the health
\* check filter.
HealthKeepCooldown(f, v) ==
    IF v.markable
       THEN \/ v.count < HealthMaxFails(f)
            \/ Since(now, v.time) >= EffFailTimeout(f, v)
       ELSE TRUE

\* Lines 86-94.
HealthKeep(f, v) == IF v.markable THEN v.count < HealthMaxFails(f) ELSE TRUE

\* Mutant of HealthCheckFilter: no fail-open, the filtered list is returned.
HealthCheckFilterNoFailOpen(f, vs) ==
    IF Len(vs) <= 1 THEN vs
    ELSE SelectSeq(vs, LAMBDA v : HealthKeep(f, v))

\* Lines 76-100.
HealthCheckFilter(f, vs) ==
    IF Len(vs) <= 1 THEN vs
    ELSE LET l == SelectSeq(vs, LAMBDA v : HealthKeep(f, v))
         IN  IF Len(l) = 0 THEN vs ELSE l

\* ====================================================== backupFilter.Filter
\* Lines 118-119: mdutil.GetBool(mi.Metadata(), labelBackup).
IsBackup(v) == v.md /\ v.backup

\* Mutant of BackupFilter: the final test is on the wrong list, so the backups
\* are returned whenever there is one.
BackupFilterPreferBackups(vs) ==
    IF Len(vs) <= 1 THEN vs
    ELSE LET l       == SelectSeq(vs, LAMBDA v : ~IsBackup(v))
             backups == SelectSeq(vs, LAMBDA v : IsBackup(v))
         IN  IF Len(backups) = 0 THEN l ELSE backups

\* Mutant of BackupFilter: the "continue" of line 121 is missing, so a backup
\* is appended to l as well.
BackupFilterNoContinue(vs) ==
    IF Len(vs) <= 1 THEN vs
    ELSE LET l       == SelectSeq(vs, LAMBDA v : TRUE)
             backups == SelectSeq(vs, LAMBDA v : IsBackup(v))
         IN  IF Len(l) = 0 THEN backups ELSE l

\* Lines 111-131.
BackupFilter(vs) ==
    IF Len(vs) <= 1 THEN vs
    ELSE LET l       == SelectSeq(vs, LAMBDA v : ~IsBackup(v))
             backups == SelectSeq(vs, LAMBDA v : IsBackup(v))
         IN  IF Len(l) = 0 THEN backups ELSE l

\* ================================================================ SpecPure
\* The filters applied to enumerated candidate lists.
\* Marker states: no marker, or a count with the time of the last failure
\* (a marker that never failed has count 0 and the epoch as its time).
PureNow == ClockStart + DefaultFailTimeout

PlainCands ==
    {Cand(1, FALSE, 0, Epoch, md, FALSE, 0, FALSE, 0, md) : md \in BOOLEAN}
    \cup
    {Cand(1, TRUE, c, t, md, FALSE, 0, FALSE, 0, md) :
        c \in 0..2, t \in {Epoch, PureNow - DefaultFailTimeout}, md \in BOOLEAN}

\* Candidates whose metadata overrides maxFails or failTimeout.
OverrideCands ==
    {Cand(1, TRUE, c, PureNow - DefaultFailTimeout, TRUE, TRUE, mf, FALSE, 0, FALSE) :
        c \in 1..2, mf \in {0, 2}}
    \cup
    {Cand(1, TRUE, c, PureNow - DefaultFailTimeout, TRUE, FALSE, 0, TRUE,
          DefaultFailTimeout + 1, FALSE) : c \in 1..2}

PureCands == PlainCands \cup OverrideCands

\* FailFilter(maxFails, timeout) / HealthCheckFilter(maxFails) as constructed
\* from a SelectorConfig: 0 is the unset value.
FilterCfgs ==
    [strategy : {"rr"}, healthCheck : {FALSE},
     maxFails : {0, 2}, failTimeout : {0, DefaultFailTimeout + 1}]

InitPure ==
    /\ RRIdle
    /\ LoopIdle
    /\ SysIdle
    /\ now = PureNow
    /\ cfg \in FilterCfgs
    /\ pIn \in ListsOver(PureCands, MaxLen)
    /\ pOut = [kind |-> "none", out |-> <<>>, again |-> <<>>]

\* f.Filter(ctx, vs...), and the filter applied once more to its own output.
ApplyFail ==
    /\ LET out == FailFilter(cfg, now, pIn) IN
         pOut' = [kind |-> "fail", out |-> out,
                  again |-> FailFilter(cfg, now, out)]
    /\ UNCHANGED <<rrVars, now, cfg, pIn, sysVars, loopVars>>

ApplyHealth ==
    /\ LET out == HealthCheckFilter(cfg, pIn) IN
         pOut' = [kind |-> "health", out |-> out,
                  again |-> HealthCheckFilter(cfg, out)]
    /\ UNCHANGED <<rrVars, now, cfg, pIn, sysVars, loopVars>>

ApplyBackup ==
    /\ LET out == BackupFilter(pIn) IN
         pOut' = [kind |-> "backup", out |-> out, again |-> BackupFilter(out)]
    /\ UNCHANGED <<rrVars, now, cfg, pIn, sysVars, loopVars>>

NextPure == ApplyFail \/ ApplyHealth \/ ApplyBackup

SpecPure == InitPure /\ [][NextPure]_vars

\* ---------------------------------------------------- claims on SpecPure
InOut(v) == v \in Range(pOut.out)

\* The three cases of C3 for the candidate v of the input.
FailCases(v) ==
    /\ (v.count = EffMaxFails(cfg, v)
          /\ Since(now, v.time) >= EffFailTimeout(cfg, v)) => InOut(v)
    /\ (v.count = EffMaxFails(cfg, v)
          /\ Since(now, v.time) < EffFailTimeout(cfg, v)) => ~InOut(v)
    /\ (v.count < EffMaxFails(cfg, v)) => InOut(v)

AllOverThreshold ==
    \A i \in 1..Len(pIn) :
        pIn[i].markable /\ pIn[i].count >= HealthMaxFails(cfg)

\* C4: HealthCheckFilter returns a non-empty list for a non-empty input, and
\* the input itself when every candidate is at or over the fail threshold.
C4_HealthFailOpen ==
    (pOut.kind = "health" /\ Len(pIn) > 0) =>
        /\ Len(pOut.out) > 0
        /\ AllOverThreshold => pOut.out = pIn

\* Two or more candidates, every one at or over the threshold.
C4_Witness ==
    pOut.kind = "health" /\ Len(pIn) >= 2 /\ AllOverThreshold

\* The non-backup candidates of the input, in input order.
Primaries(vs) == SelectSeq(vs, LAMBDA v : ~(v.md /\ v.backup))

\* C5: with at least one non-backup and one backup candidate the output is
\* exactly the non-backup candidates, in input order; a list of backups only
\* is returned as it is.
C5_BackupFilter ==
    pOut.kind = "backup" =>
        /\ (Len(Primaries(pIn)) > 0 /\ Len(Primaries(pIn)) < Len(pIn))
              => /\ pOut.out = Primaries(pIn)
                 /\ \A i \in 1..Len(pOut.out) : ~pOut.out[i].backup
        /\ (Len(Primaries(pIn)) = 0) => pOut.out = pIn

\* A backup between two non-backup candidates.
C5_Witness ==
    /\ pOut.kind = "backup"
    /\ Len(pIn) >= 3
    /\ pIn[1].backup = FALSE /\ pIn[2].backup = TRUE /\ pIn[3].backup = FALSE
    /\ Len(pOut.out) = 2

\* C8: each filter applied to its own output returns that output.
C8_FilterIdempotent ==
    pOut.kind # "none" => pOut.again = pOut.out

\* FailFilter filtering a list of three down to two, which it filters again.
C8_Witness ==
    /\ pOut.kind = "fail"
    /\ Len(pIn) = 3
    /\ Len(pOut.out) = 2
    /\ pOut.again = pOut.out

\* What C15 expects of HealthCheckFilter: the threshold of each candidate is
\* the one FailFilter uses for it (metadata override, then coercion).
HealthExpected(f, vs) ==
    LET Keep(v) == ~v.markable \/ v.count < EffMaxFails(f, v)
        l == SelectSeq(vs, Keep)
    IN  IF Len(vs) <= 1 THEN vs ELSE IF Len(l) = 0 THEN vs ELSE l

\* C15: HealthCheckFilter keeps a candidate exactly when it has no marker or
\* its count is below its effective max-fails, the filter's value overridden
\* by the candidate's own maxFails metadata.
C15_HealthPerCandidate ==
    pOut.kind = "health" => pOut.out = HealthExpected(cfg, pIn)

\* ================================================================== Select
\* The filter chain NewSelector is given by ParseNodeSelector: the liveness
\* filter (HealthCheckFilter when cfg.HealthCheck, else FailFilter), then
\* BackupFilter.
SelFilter(c, t, vs) ==
    BackupFilter(IF c.healthCheck THEN HealthCheckFilter(c, vs)
                                  ELSE FailFilter(c, t, vs))

\* What the strategy may return for the list l with the round-robin counter
\* at n: the zero value for an empty list; RoundRobin the element at n mod
\* len; FIFO the first element; Hash the element at crc32(key) mod len, or at
\* a random index when the call carries no key, so any element.
StrategyApply(c, n, l) ==
    IF Len(l) = 0 THEN {NilCand}
    ELSE CASE c.strategy = "rr"   -> {RRIndex(n, l)}
           [] c.strategy = "fifo" -> {l[1]}
           [] c.strategy = "hash" -> Range(l)

\* Select(vs...): the filters in order, then the strategy on what is left.
SelectStep(vs) ==
    /\ counter < MaxCalls
    /\ LET l == SelFilter(cfg, now, vs) IN
         /\ \E r \in StrategyApply(cfg, counter, l) :
               lastSel' = [ret |-> r, n |-> Len(l)]
         /\ counter' = IF cfg.strategy = "rr" /\ Len(l) > 0
                          THEN AtomicAddUint64(counter) ELSE counter

\* ============================================================== SpecSelect
\* Select applied to enumerated candidate lists, for every selector that
\* ParseNodeSelector builds from the strategies modelled here.
SelCands ==
    {Cand(1, TRUE, c, t, b, FALSE, 0, FALSE, 0, b) :
        c \in {0, 2}, t \in {Epoch, PureNow - DefaultFailTimeout}, b \in BOOLEAN}
    \cup
    {Cand(1, TRUE, 1, PureNow - DefaultFailTimeout, b, FALSE, 0, FALSE, 0, b) :
        b \in BOOLEAN}

SelectorCfgs ==
    [strategy : {"rr", "fifo", "hash"}, healthCheck : BOOLEAN,
     maxFails : {0, 2}, failTimeout : {0, DefaultFailTimeout + 1}]

InitSelect ==
    /\ RRIdle
    /\ LoopIdle
    /\ SysIdle
    /\ now = PureNow
    /\ cfg \in SelectorCfgs
    /\ pIn \in ListsOver(SelCands, MaxLen)
    /\ pOut = [kind |-> "none", out |-> <<>>, again |-> <<>>]

SelectPure ==
    /\ SelectStep(pIn)
    /\ UNCHANGED <<rrPc, rrArg, rrN, rrRet, rrLog, rrCalls, now, pureVars,
                   markers, nodes, hc, lastOp>>

NextSelect == SelectPure /\ UNCHANGED loopVars

SpecSelect == InitSelect /\ [][NextSelect]_vars

\* --------------------------------------------------- claims on SpecSelect
\* The keep rule of the selector's liveness filter.
LiveKeep(v) ==
    IF cfg.healthCheck THEN (~v.markable \/ v.count < HealthMaxFails(cfg))
    ELSE (~v.markable \/ v.count < EffMaxFails(cfg, v)
             \/ Since(now, v.time) >= EffFailTimeout(cfg, v))

LivePrimaryInInput ==
    \E i \in 1..Len(pIn) : ~pIn[i].backup /\ LiveKeep(pIn[i])

\* C6: Select returns a backup only if no non-backup candidate of the input
\* passes the liveness keep rule; when one does, Select returns a non-backup
\* candidate of the input that passes it, whatever the backups' markers are.
C6_BackupOnlyWithoutLivePrimary ==
    lastSel.n >= 0 =>
       /\ lastSel.ret.backup => ~LivePrimaryInInput
       /\ LivePrimaryInInput =>
             /\ lastSel.ret \in Range(pIn)
             /\ ~lastSel.ret.backup
             /\ LiveKeep(lastSel.ret)

\* A live primary is selected from a list that holds a dead backup before it.
C6_Witness ==
    /\ lastSel.n >= 0
    /\ Len(pIn) >= 2
    /\ pIn[1].backup /\ ~LiveKeep(pIn[1])
    /\ LivePrimaryInInput
    /\ ~lastSel.ret.backup


\* Every candidate of the input is at or over its threshold and inside its
\* fail timeout: the only inputs FailFilter turns into the empty list.
AllFailedRecently ==
    \A v \in Range(pIn) :
        /\ v.markable
        /\ v.count >= EffMaxFails(cfg, v)
        /\ Since(now, v.time) < EffFailTimeout(cfg, v)

NodeIds == {1, 2}

\* Marker.Mark(): count + 1, time = now.  Marker.Reset(): count = 0.
MarkTimeOnly(m, t) == [count |-> m.count, time |-> t]

Mark(m, t) == [count |-> m.count + 1, time |-> t]
Reset(m) == [m EXCEPT !.count = 0]

\* Node i as the filters see it: a *chain.Node is Markable; its metadata
\* carries the backup flag and no override.
NodeView(i) ==
    Cand(i, TRUE, markers[i].count, markers[i].time, nodes[i].backup,
         FALSE, 0, FALSE, 0, nodes[i].backup)

NodeList == [i \in 1..Cardinality(NodeIds) |-> NodeView(i)]

NoOp(op, i) ==
    [op |-> op, node |-> i, err |-> FALSE, status |-> 0, failed |-> FALSE]

\* =========================================================== HealthChecker
\* What a probe meets: a transport error (dial error, request error,
\* timeout), or for HTTP a response with a status code.
HTTPStatuses == {200, 204, 301, 404, 500}

ProbeResponses(h) ==
    IF h.type = "http"
       THEN {[err |-> TRUE, status |-> 0]}
            \cup {[err |-> FALSE, status |-> st] : st \in HTTPStatuses}
       ELSE {[err |-> e, status |-> 0] : e \in BOOLEAN}

\* checkTCP returns an error iff the dial fails.
CheckTCP(h, resp) == resp.err

\* checkHTTP returns an error (TRUE) or nil (FALSE), lines 417-431.
CheckHTTP(h, resp) ==
    IF resp.err THEN TRUE
    ELSE IF h.expectStatus > 0 /\ resp.status # h.expectStatus THEN TRUE
    ELSE IF resp.status >= 200 /\ resp.status < 400 THEN FALSE
    ELSE TRUE

\* Lines 373-379: err of the probe of the configured type.
ProbeErr(h, resp) ==
    IF h.type = "http" THEN CheckHTTP(h, resp) ELSE CheckTCP(h, resp)

\* HealthChecker.check(v): a node without address is skipped; a failed probe
\* marks the node, a passed one resets its marker.  ParseHealthChecker builds
\* a checker only when cfg.HealthCheck is set.
Check(i, resp) ==
    /\ cfg.healthCheck
    /\ IF ~nodes[i].addr
          THEN /\ markers' = markers
               /\ lastOp' = NoOp("probe-skip", i)
          ELSE LET failed == ProbeErr(hc, resp) IN
               /\ failed => markers[i].count < MaxCount
               /\ markers' = [markers EXCEPT ![i] =
                                 IF failed THEN Mark(@, now) ELSE Reset(@)]
               /\ lastOp' = [op |-> "probe", node |-> i, err |-> resp.err,
                             status |-> resp.status, failed |-> failed]
    /\ UNCHANGED <<rrVars, now, pureVars, nodes, hc, lastSel>>

\* ============================================= the caller and the clock
\* The caller reports the outcome of its connection attempt on the node's
\* marker: Mark on failure, Reset on success.
ReportFailure(i) ==
    /\ markers[i].count < MaxCount
    /\ markers' = [markers EXCEPT ![i] = Mark(@, now)]
    /\ lastOp' = NoOp("report-fail", i)
    /\ UNCHANGED <<rrVars, now, pureVars, nodes, hc, lastSel>>

ReportSuccess(i) ==
    /\ markers' = [markers EXCEPT ![i] = Reset(@)]
    /\ lastOp' = NoOp("report-ok", i)
    /\ UNCHANGED <<rrVars, now, pureVars, nodes, hc, lastSel>>

Tick ==
    /\ now < ClockStart + MaxNow
    /\ now' = now + 1
    /\ lastOp' = NoOp("tick", 0)
    /\ UNCHANGED <<rrVars, pureVars, markers, nodes, hc, lastSel>>

\* Select over the hop's nodes.
SelectNodes ==
    /\ SelectStep(NodeList)
    /\ lastOp' = NoOp("select", 0)
    /\ UNCHANGED <<rrPc, rrArg, rrN, rrRet, rrLog, rrCalls, now, pureVars,
                   markers, nodes, hc>>

\* ================================================================= SpecSys
\* Two nodes [A, B], neither a backup, behind the selector ParseNodeSelector
\* builds with round robin, maxFails 1 or 2 and a fail timeout of 1s: with
\* FailFilter, or with HealthCheckFilter and a TCP health checker.
SysCfgs ==
    [strategy : {"rr"}, healthCheck : BOOLEAN, maxFails : {1, 2},
     failTimeout : {1}]

FreshMarkers == [i \in NodeIds |-> [count |-> 0, time |-> Epoch]]

InitSys ==
    /\ RRIdle
    /\ LoopIdle
    /\ now = ClockStart
    /\ cfg \in SysCfgs
    /\ pIn = <<>>
    /\ pOut = [kind |-> "none", out |-> <<>>, again |-> <<>>]
    /\ markers = FreshMarkers
    /\ nodes = [i \in NodeIds |-> [addr |-> TRUE, backup |-> FALSE]]
    /\ hc = [type |-> "tcp", expectStatus |-> 200]
    /\ lastSel = [ret |-> NilCand, n |-> -1]
    /\ lastOp = NoOp("none", 0)

NextSys ==
    \/ SelectNodes /\ UNCHANGED loopVars
    \/ \E i \in NodeIds : ReportFailure(i) /\ UNCHANGED loopVars
    \/ \E i \in NodeIds : ReportSuccess(i) /\ UNCHANGED loopVars
    \/ \E i \in NodeIds : \E resp \in ProbeResponses(hc) :
          Check(i, resp) /\ UNCHANGED loopVars
    \/ Tick /\ UNCHANGED loopVars

SpecSys == InitSys /\ [][NextSys]_vars

\* =============================================================== SpecProbe
\* The health checker as ParseHealthChecker configures it, probing two nodes.
HCConfigs == [type : {"tcp", "http"}, expectStatus : {0, 200, 204, 404, 500}]

InitProbe ==
    /\ RRIdle
    /\ LoopIdle
    /\ now = ClockStart
    /\ cfg = [strategy |-> "rr", healthCheck |-> TRUE,
              maxFails |-> 1, failTimeout |-> 0]
    /\ pIn = <<>>
    /\ pOut = [kind |-> "none", out |-> <<>>, again |-> <<>>]
    /\ markers = FreshMarkers
    /\ nodes \in [NodeIds -> [addr : BOOLEAN, backup : {FALSE}]]
    /\ hc \in HCConfigs
    /\ lastSel = [ret |-> NilCand, n |-> -1]
    /\ lastOp = NoOp("none", 0)

NextProbe ==
    \/ \E i \in NodeIds : \E resp \in ProbeResponses(hc) :
          Check(i, resp) /\ UNCHANGED loopVars
    \/ Tick /\ UNCHANGED loopVars

SpecProbe == InitProbe /\ [][NextProbe]_vars

\* ------------------------------------------------------ claims on SpecSys
\* The selector of C7: FailFilter(maxFails=1, timeout=1s), BackupFilter,
\* RoundRobin.
E2ECfg ==
    cfg = [strategy |-> "rr", healthCheck |-> FALSE,
           maxFails |-> 1, failTimeout |-> 1]

\* A has failed and its last failure is less than 1s old; B has not failed.
AFailedRecently ==
    /\ markers[1].count >= 1 /\ Since(now, markers[1].time) < 1
    /\ markers[2].count = 0

\* A has failed, 1s or more has elapsed since; B has not failed.
AFailedLongAgo ==
    /\ markers[1].count >= 1 /\ Since(now, markers[1].time) >= 1
    /\ markers[2].count = 0

HCIncluded(i) ==
    \E k \in 1..Len(HealthCheckFilter(cfg, NodeList)) :
        HealthCheckFilter(cfg, NodeList)[k].id = i

OtherUnderThreshold(i) ==
    \E j \in NodeIds \ {i} : markers[j].count < HealthMaxFails(cfg)

\* C9 as stated: under HealthCheckFilter the passing of time changes nothing,
\* and an excluded node becomes included again (while another node is under
\* the threshold) only by a successful probe resetting its marker.
C9_AsStated ==
    [][cfg.healthCheck =>
         \A i \in NodeIds :
            /\ now' # now => (HCIncluded(i)' <=> HCIncluded(i))
            /\ (~HCIncluded(i) /\ HCIncluded(i)' /\ OtherUnderThreshold(i)')
                  => /\ markers'[i].count = 0
                     /\ lastOp'.op = "probe" /\ ~lastOp'.failed
                     /\ lastOp'.node = i]_vars

\* C9 (amended): under HealthCheckFilter the passing of time changes nothing,
\* and an excluded node becomes included again (while another node is under
\* the threshold) only by a Reset of its marker to 0: by a successful probe
\* or by the caller reporting a successful connection.
C9_NoCooldown ==
    [][cfg.healthCheck =>
         \A i \in NodeIds :
            /\ now' # now => (HCIncluded(i)' <=> HCIncluded(i))
            /\ (~HCIncluded(i) /\ HCIncluded(i)' /\ OtherUnderThreshold(i)')
                  => /\ markers'[i].count = 0
                     /\ \/ lastOp'.op = "probe" /\ ~lastOp'.failed
                        \/ lastOp'.op = "report-ok"
                     /\ lastOp'.node = i]_vars

\* A node that failed longer ago than the fail timeout is still excluded.
C9_Witness ==
    /\ cfg.healthCheck
    /\ \E i \in NodeIds :
          /\ ~HCIncluded(i)
          /\ Since(now, markers[i].time) >= EffFailTimeout(cfg, NodeView(i))
          /\ markers[i].time > Epoch

\* ---------------------------------------------------- claims on SpecProbe
\* C10: an HTTP probe passes iff the request met no error and the status
\* equals the expected status when one is set (whatever it is), or is a
\* 2xx / 3xx status when none is set.
C10_HTTPProbeOutcome ==
    (lastOp.op = "probe" /\ hc.type = "http") =>
        (~lastOp.failed <=>
            /\ ~lastOp.err
            /\ IF hc.expectStatus > 0
                  THEN lastOp.status = hc.expectStatus
                  ELSE lastOp.status >= 200 /\ lastOp.status < 400)

\* ======================================================== HealthChecker loop
\* One entry of loops per call of Start: the context created by the call and
\* the goroutine running run(ctx, nodes).
\*   ns    - the nodes argument of Start
\*   pc    - "start": spawned, run not yet entered; "pass": inside checkAll;
\*           "select": blocked in the select of the for loop; "exit": returned
\*   done  - the context is cancelled (ctx.Done() is closed)
\*   tick  - ticker.C holds a tick (the channel has a buffer of one)
\*   res   - per node: the outcome of its check goroutine in the current or
\*           last pass, "none" while the goroutine has not finished
\*   kind  - history: what started the current or last pass ("first", "tick")
\*   late  - history: a pass was started while the context was cancelled
MaxStarts == 2     \* calls of Start per behaviour

NewLoop(ns) ==
    [ns |-> ns, pc |-> "start", done |-> FALSE, tick |-> FALSE,
     res |-> [i \in ns |-> "none"], kind |-> "none", late |-> FALSE]

LoopIds == 1..Len(loops)

\* Start(nodes): a fresh cancellable context, its cancel stored over whatever
\* cancelFunc held, and run spawned on it.
Start(ns) ==
    /\ Len(loops) < MaxStarts
    /\ loops' = Append(loops, NewLoop(ns))
    /\ hcCancel' = Len(loops) + 1
    /\ UNCHANGED <<rrVars, now, pureVars, sysVars>>

\* What Stop leaves of the loops l when cancelFunc is c: nothing changes for
\* a nil cancelFunc; cancelling a cancelled context changes nothing either.
StopAllLoops(l, c) == [k \in 1..Len(l) |-> [l[k] EXCEPT !.done = TRUE]]

StopToggles(l, c) == IF c # 0 THEN [l EXCEPT ![c].done = ~@] ELSE l

StopInterrupts(l, c) ==
    IF c # 0 THEN [l EXCEPT ![c].done = TRUE, ![c].pc = "exit"] ELSE l

StopEffect(l, c) == IF c # 0 THEN [l EXCEPT ![c].done = TRUE] ELSE l

Stop ==
    /\ loops' = StopEffect(loops, hcCancel)
    /\ UNCHANGED <<hcCancel, rrVars, now, pureVars, sysVars>>

\* checkAll(nodes) entered: one check goroutine spawned per node.
BeginPass(l, kind) ==
    [l EXCEPT !.pc = "pass", !.res = [i \in l.ns |-> "none"],
              !.kind = kind, !.late = l.done]

\* run entered: the ticker is created and the first pass starts at once.
RunBegin(k) ==
    /\ loops[k].pc = "start"
    /\ loops' = [loops EXCEPT ![k] = BeginPass(@, "first")]
    /\ UNCHANGED <<hcCancel, rrVars, now, pureVars, sysVars>>

\* The outcome check(n) leaves behind for the probe response resp.
ProbeOutcome(i, resp) ==
    IF ~nodes[i].addr THEN "skip"
    ELSE IF ProbeErr(hc, resp) THEN "fail" ELSE "ok"

\* One check goroutine of the pass runs hc.check(n) and calls wg.Done().
\* checkAll spawns one such goroutine per node, so a node whose goroutine
\* has finished is not checked again in the pass.
LoopProbeAgain(k, i) == TRUE

LoopProbeReady(k, i) == loops[k].res[i] = "none"

LoopProbe(k, i, resp) ==
    /\ loops[k].pc = "pass"
    /\ i \in loops[k].ns
    /\ LoopProbeReady(k, i)
    /\ Check(i, resp)
    /\ loops' = [loops EXCEPT ![k].res[i] = ProbeOutcome(i, resp)]
    /\ UNCHANGED hcCancel

\* wg.Wait() returns once every check goroutine of the pass is done.
PassDone(k) ==
    /\ loops[k].pc = "pass"
    /\ \A i \in loops[k].ns : loops[k].res[i] # "none"
    /\ loops' = [loops EXCEPT ![k].pc = "select"]
    /\ UNCHANGED <<hcCancel, rrVars, now, pureVars, sysVars>>

\* The select takes the tick: the next pass starts.  When the tick and the
\* cancellation are both ready Go picks one of the two at random.
SelectTick(k) ==
    /\ loops[k].pc = "select"
    /\ loops[k].tick
    /\ loops' = [loops EXCEPT ![k] = BeginPass([@ EXCEPT !.tick = FALSE],
                                               "tick")]
    /\ UNCHANGED <<hcCancel, rrVars, now, pureVars, sysVars>>

\* The select takes ctx.Done(): run returns.
SelectDone(k) ==
    /\ loops[k].pc = "select"
    /\ loops[k].done
    /\ loops' = [loops EXCEPT ![k].pc = "exit"]
    /\ UNCHANGED <<hcCancel, rrVars, now, pureVars, sysVars>>

\* The interval elapses: the ticker puts a tick into its channel unless the
\* channel still holds one.  The ticker exists from the entry of run until
\* run returns.
TickerFire(k) ==
    /\ loops[k].pc \in {"pass", "select"}
    /\ ~loops[k].tick
    /\ loops' = [loops EXCEPT ![k].tick = TRUE]
    /\ UNCHANGED <<hcCancel, rrVars, now, pureVars, sysVars>>

\* ================================================================ SpecLoop
\* One HealthChecker with a TCP probe, started once on the hop's two nodes
\* and stopped at any moment.
InitLoop ==
    /\ RRIdle
    /\ LoopIdle
    /\ now = ClockStart
    /\ cfg = [strategy |-> "rr", healthCheck |-> TRUE,
              maxFails |-> 1, failTimeout |-> 0]
    /\ pIn = <<>>
    /\ pOut = [kind |-> "none", out |-> <<>>, again |-> <<>>]
    /\ markers = FreshMarkers
    /\ nodes \in [NodeIds -> [addr : BOOLEAN, backup : {FALSE}]]
    /\ hc = [type |-> "tcp", expectStatus |-> 200]
    /\ lastSel = [ret |-> NilCand, n |-> -1]
    /\ lastOp = NoOp("none", 0)

StartOnce == Len(loops) = 0 /\ Start(NodeIds)

NextLoop ==
    \/ StartOnce
    \/ Stop
    \/ \E k \in LoopIds : RunBegin(k)
    \/ \E k \in LoopIds : \E i \in NodeIds : \E resp \in ProbeResponses(hc) :
          LoopProbe(k, i, resp)
    \/ \E k \in LoopIds : PassDone(k)
    \/ \E k \in LoopIds : SelectTick(k)
    \/ \E k \in LoopIds : SelectDone(k)
    \/ \E k \in LoopIds : TickerFire(k)

SpecLoop == InitLoop /\ [][NextLoop]_vars

\* ----------------------------------------------------- claims on SpecLoop
\* The pass of loop k is complete: checkAll has returned.
PassComplete(k) == loops[k].pc \in {"select", "exit"} /\ loops[k].kind # "none"

\* Loop k finishes the check of node i in this step.
ProbeStep(k, i) ==
    /\ k \in LoopIds
    /\ i \in loops[k].ns
    /\ loops[k].res[i] = "none"
    /\ loops'[k].res[i] # "none"

\* The markers after a complete pass of the only loop.
PassMarkers ==
    \A k \in LoopIds : PassComplete(k) =>
        \A i \in loops[k].ns :
            /\ loops[k].res[i] = "ok" => markers[i].count = 0
            /\ loops[k].res[i] = "fail" => markers[i].count >= 1

\* What one check does: Reset on success, exactly one Mark on failure,
\* nothing for a skipped node; no other marker and nothing of the selector
\* changes.
ProbeEffect ==
    \A k \in LoopIds : \A i \in NodeIds : ProbeStep(k, i) =>
        /\ loops'[k].res[i] = "ok" =>
               markers'[i] = [markers[i] EXCEPT !.count = 0]
        /\ loops'[k].res[i] = "fail" =>
               markers'[i] = [count |-> markers[i].count + 1, time |-> now]
        /\ loops'[k].res[i] = "skip" => markers'[i] = markers[i]
        /\ \A j \in NodeIds \ {i} : markers'[j] = markers[j]
        /\ UNCHANGED <<rrVars, pureVars, lastSel, hcCancel>>

PassStart(k) ==
    /\ k \in LoopIds
    /\ loops[k].pc # "pass"
    /\ loops'[k].pc = "pass"

AllProbed(l) == \A i \in l.ns : l.res[i] # "none"

\* The first pass follows the start-up directly and takes no tick; every
\* later pass takes one tick out of the ticker's channel; a pass starts with
\* no node checked, and only when every check of the pass before is done.
PassOrder ==
    \A k \in LoopIds : PassStart(k) =>
        /\ \A i \in loops'[k].ns : loops'[k].res[i] = "none"
        /\ \/ /\ loops[k].pc = "start"
              /\ loops[k].kind = "none" /\ loops'[k].kind = "first"
              /\ ~loops[k].tick /\ ~loops'[k].tick
           \/ /\ loops[k].pc = "select"
              /\ loops[k].kind # "none" /\ loops'[k].kind = "tick"
              /\ loops[k].tick /\ ~loops'[k].tick
              /\ AllProbed(loops[k])

\* Inside a pass a node is checked once: after its check goroutine has
\* finished, neither its outcome nor its marker changes again in the pass.
ProbedOnce ==
    \A k \in LoopIds : \A i \in loops[k].ns :
        (loops[k].pc = "pass" /\ loops[k].res[i] # "none") =>
            /\ loops'[k].res[i] = loops[k].res[i]
            /\ markers'[i] = markers[i]

\* The loop leaves checkAll only with every node checked, and leaves the
\* start-up only into the first pass.
PassRunsToEnd ==
    \A k \in LoopIds :
        /\ (loops[k].pc = "pass" /\ loops'[k].pc # "pass") =>
               (loops'[k].pc = "select" /\ AllProbed(loops[k]))
        /\ (loops[k].pc = "start" /\ loops'[k].pc # "start") =>
               loops'[k].pc = "pass"

\* C12: a loop runs its first pass at once, before any tick, then one pass
\* per tick it takes; a pass checks every node exactly once, and the next
\* pass starts only after every check of the previous one has finished.
C12_PassSchedule == [][PassOrder /\ ProbedOnce /\ PassRunsToEnd]_vars

C12_Witness ==
    \E k \in LoopIds :
        /\ loops[k].pc = "select"
        /\ loops[k].kind = "tick"
        /\ ~loops[k].done
        /\ \A i \in loops[k].ns : loops[k].res[i] \in {"ok", "fail"}

\* C13 as stated: once the context of a loop is cancelled, the loop enters
\* no further pass.
C13_AsStated == [][\A k \in LoopIds : PassStart(k) => ~loops[k].done]_vars

\* The context of loop k is cancelled in this step.
CancelStep(k) == k \in LoopIds /\ ~loops[k].done /\ loops'[k].done

\* After Stop a loop enters a pass only out of its start-up or by taking a
\* tick that is ready in the select; once it has taken the cancellation it
\* has returned for good; the cancellation itself touches neither the
\* position of the loop nor the checks of a pass in flight.
StopThenPasses ==
    \A k \in LoopIds :
        /\ (PassStart(k) /\ loops[k].done) =>
               \/ loops[k].pc = "start"
               \/ loops[k].pc = "select" /\ loops[k].tick
        /\ loops[k].pc = "exit" => loops'[k] = loops[k]
        /\ (loops[k].pc # "exit" /\ loops'[k].pc = "exit") =>
               (loops[k].pc = "select" /\ loops[k].done)
        /\ CancelStep(k) =>
               (loops'[k] = [loops[k] EXCEPT !.done = TRUE]
                  /\ markers' = markers)

\* C13 (amended): once Stop has been called, the loop can still enter its
\* first pass (Stop before the start-up of run) and one pass for each ready
\* tick the select takes instead of the cancellation; it enters no pass
\* after it has taken the cancellation, and a pass in flight runs to its end.
C13_PassesAfterStop == [][StopThenPasses]_vars

C13_Witness ==
    \E k \in LoopIds :
        /\ loops[k].done /\ loops[k].late
        /\ loops[k].kind = "tick"
        /\ loops[k].pc = "exit"

\* ================================================================ SpecLife
\* One HealthChecker whose caller calls Start and Stop in any order, every
\* Start on the one-node list [A].
LifeNodes == {1}

InitLife ==
    /\ RRIdle
    /\ LoopIdle
    /\ now = ClockStart
    /\ cfg = [strategy |-> "rr", healthCheck |-> TRUE,
              maxFails |-> 1, failTimeout |-> 0]
    /\ pIn = <<>>
    /\ pOut = [kind |-> "none", out |-> <<>>, again |-> <<>>]
    /\ markers = FreshMarkers
    /\ nodes = [i \in NodeIds |-> [addr |-> TRUE, backup |-> FALSE]]
    /\ hc = [type |-> "tcp", expectStatus |-> 200]
    /\ lastSel = [ret |-> NilCand, n |-> -1]
    /\ lastOp = NoOp("none", 0)

NextLife ==
    \/ Start(LifeNodes)
    \/ Stop
    \/ \E k \in LoopIds : RunBegin(k)
    \/ \E k \in LoopIds : \E i \in NodeIds : \E resp \in ProbeResponses(hc) :
          LoopProbe(k, i, resp)
    \/ \E k \in LoopIds : PassDone(k)
    \/ \E k \in LoopIds : SelectTick(k)
    \/ \E k \in LoopIds : SelectDone(k)
    \/ \E k \in LoopIds : TickerFire(k)

SpecLife == InitLife /\ [][NextLife]_vars

\* ----------------------------------------------------- claims on SpecLife
\* The loops whose context is not cancelled.
RunningLoops == {k \in LoopIds : ~loops[k].done}

\* Stopped: Start has been called and no context is left uncancelled.
Stopped == hcCancel # 0 /\ RunningLoops = {}

\* Stop can be called in every state; on a checker that was never started
\* and on a stopped one it changes nothing.
StopSafe ==
    /\ ENABLED Stop
    /\ hcCancel = 0 => (loops = <<>> /\ StopEffect(loops, hcCancel) = loops)
    /\ Stopped => StopEffect(loops, hcCancel) = loops
    /\ hcCancel # 0 =>
          (hcCancel \in LoopIds /\ StopEffect(loops, hcCancel)[hcCancel].done)

\* Stop cancels the context of the last Start and nothing else; a Start on a
\* stopped checker leaves exactly one loop running, the new one.
StopStartSteps ==
    /\ \A k \in LoopIds : CancelStep(k) =>
          /\ k = hcCancel /\ hcCancel' = hcCancel
          /\ loops' = [loops EXCEPT ![k].done = TRUE]
          /\ RunningLoops = {k} => Stopped'
    /\ (Stopped /\ Len(loops') = Len(loops) + 1) =>
          /\ hcCancel' = Len(loops')
          /\ {k \in 1..Len(loops') : ~loops'[k].done} = {hcCancel'}
          /\ loops'[hcCancel'].pc = "start"

MaxInt64 == 2147483647

\* The connection count Apply reads for a candidate: ActiveConns() when the
\* candidate is Connectable, else the zero value.
LCConns(v) == IF v.connectable THEN v.conns ELSE 0

LCLessReversed(conns, minConns) == conns > minConns

LCLess(conns, minConns) == conns < minConns

\* The loop over vs: the candidates tied at the smallest count seen so far.
RECURSIVE LCScan(_, _, _, _)
LCScan(vs, i, minConns, candidates) ==
    IF i > Len(vs) THEN candidates
    ELSE LET conns == LCConns(vs[i]) IN
         IF LCLess(conns, minConns)
            THEN LCScan(vs, i + 1, conns, <<vs[i]>>)
         ELSE IF conns = minConns
            THEN LCScan(vs, i + 1, minConns, Append(candidates, vs[i]))
         ELSE LCScan(vs, i + 1, minConns, candidates)

\* leastConnStrategy.Apply(vs...): the values it may return.  A single
\* candidate at the minimum is returned directly, otherwise the one at the
\* index r.Intn(len(candidates)) draws.
LeastConnApply(vs) ==
    IF Len(vs) = 0 THEN {NilCand}
    ELSE LET candidates == LCScan(vs, 1, MaxInt64, <<>>) IN
         IF Len(candidates) = 1 THEN {candidates[1]}
         ELSE {candidates[j] : j \in 1..Len(candidates)}

\* ============================================================ SpecLeastConn
\* Apply on every list of up to MaxLen candidates, each one either not
\* Connectable or Connectable with 0, 1, 2 or MaxInt64 active connections.
\* The id of a candidate is its position in the list.
LCKinds ==
    {[connectable |-> FALSE, conns |-> 0]} \cup
    {[connectable |-> TRUE, conns |-> n] : n \in {0, 1, 2, MaxInt64}}

LCLists ==
    {[i \in 1..Len(ks) |-> [id |-> i, connectable |-> ks[i].connectable,
                            conns |-> ks[i].conns]] :
        ks \in ListsOver(LCKinds, MaxLen)}

InitLeastConn ==
    /\ RRIdle
    /\ LoopIdle
    /\ SysIdle
    /\ now = 0
    /\ cfg = [strategy |-> "leastconn", healthCheck |-> FALSE,
              maxFails |-> 0, failTimeout |-> 0]
    /\ pIn \in LCLists
    /\ pOut = [kind |-> "none", out |-> <<>>, again |-> <<>>]

ApplyLeastConn ==
    /\ \E r \in LeastConnApply(pIn) :
          lastSel' = [ret |-> r, n |-> Len(pIn)]
    /\ UNCHANGED <<rrVars, now, pureVars, markers, nodes, hc, lastOp,
                   loopVars>>

NextLeastConn == ApplyLeastConn

SpecLeastConn == InitLeastConn /\ [][NextLeastConn]_vars

\* ------------------------------------------------ claims on SpecLeastConn
LCApplied == lastSel.n # -1

\* The candidates of the input with no active connection.
LCIdle == {i \in 1..Len(pIn) : LCConns(pIn[i]) = 0}

\* C16: on a non-empty list LeastConn returns a candidate of the list whose
\* ActiveConns (0 when not Connectable) is the minimum over the list; when
\* exactly one candidate has 0 and all others have at least 1, that one is
\* returned whatever the random source draws.
C16_LeastConnMin ==
    (LCApplied /\ Len(pIn) > 0) =>
        /\ lastSel.ret \in Range(pIn)
        /\ \A i \in 1..Len(pIn) : LCConns(lastSel.ret) <= LCConns(pIn[i])
        /\ \A i \in LCIdle :
              (LCIdle = {i} /\ \A j \in 1..Len(pIn) \ {i} : LCConns(pIn[j]) >= 1)
                 => lastSel.ret = pIn[i]

C16_Witness ==
    /\ LCApplied
    /\ Len(pIn) = 3
    /\ LCConns(pIn[1]) = 2 /\ LCConns(pIn[3]) = 1
    /\ ~pIn[2].connectable
    /\ lastSel.ret = pIn[2]

\* The loops no Stop can reach any more: not cancelled, and cancelFunc holds
\* the cancel of a later Start.
LeakedLoops == {k \in RunningLoops : k # hcCancel}

\* A Start on a running checker in this step.
DoubleStart ==
    /\ hcCancel # 0
    /\ ~loops[hcCancel].done
    /\ Len(loops') = Len(loops) + 1

\* A second Start leaves the running loop running and stores only the new
\* cancel; a leaked loop is never cancelled and stays leaked, whatever is
\* called later.
LeakSteps ==
    /\ DoubleStart =>
          /\ hcCancel' = Len(loops') /\ hcCancel' # hcCancel
          /\ {hcCancel, hcCancel'} \subseteq {k \in 1..Len(loops') : ~loops'[k].done}
          /\ hcCancel \in LeakedLoops'
    /\ \A k \in LeakedLoops : k \in LeakedLoops' /\ loops'[k].pc # "exit"

\* C18: Start on a running checker leaks the running loop: both loops run,
\* cancelFunc refers to the second only, and no later call of Stop cancels
\* or terminates the first, which goes on probing.
C18_DoubleStartLeak ==
    /\ [](\A k \in LoopIds : loops[k].pc = "exit" => loops[k].done)
    /\ [][LeakSteps]_vars

C18_Witness ==
    /\ Len(loops) = 2
    /\ hcCancel = 2
    /\ loops[2].done /\ loops[2].pc = "exit"
    /\ LeakedLoops = {1}
    /\ loops[1].pc = "select" /\ loops[1].kind = "tick"
    /\ loops[1].res[1] = "fail"
    /\ markers[1].count = 2

\* ============================================================ SpecLoopFair
\* SpecLoop under the scheduling the Go runtime gives the loop: a goroutine
\* that can run does run (the start-up of run, every check goroutine - a
\* probe ends with its answer or its timeout - and the return of wg.Wait);
\* and the select, which draws uniformly among its ready cases, does not
\* pass over a cancellation that is ready every time it is reached.
LoopFairnessWeak ==
    \A k \in 1..MaxStarts :
        /\ WF_vars(k \in LoopIds /\ RunBegin(k))
        /\ WF_vars(k \in LoopIds /\ \E i \in NodeIds :
                      \E resp \in ProbeResponses(hc) : LoopProbe(k, i, resp))
        /\ WF_vars(k \in LoopIds /\ PassDone(k))
        /\ WF_vars(k \in LoopIds /\ SelectDone(k))

LoopFairness ==
    \A k \in 1..MaxStarts :
        /\ WF_vars(k \in LoopIds /\ RunBegin(k))
        /\ WF_vars(k \in LoopIds /\ \E i \in NodeIds :
                      \E resp \in ProbeResponses(hc) : LoopProbe(k, i, resp))
        /\ WF_vars(k \in LoopIds /\ PassDone(k))
        /\ SF_vars(k \in LoopIds /\ SelectDone(k))

SpecLoopFair == InitLoop /\ [][NextLoop]_vars /\ LoopFairness

\* ------------------------------------------------- claims on SpecLoopFair
\* The run goroutine of loop k returns only out of the select, with no check
\* of a pass outstanding, and the cancellation leaves the checks in flight
\* as they are.
NoProbeInterrupted ==
    \A k \in LoopIds :
        /\ (loops[k].pc # "exit" /\ loops'[k].pc = "exit") =>
               (loops[k].pc = "select" /\ AllProbed(loops[k])
                  /\ loops'[k].res = loops[k].res)
        /\ CancelStep(k) =>
               (loops'[k].pc = loops[k].pc /\ loops'[k].res = loops[k].res)

\* C19: once Stop has cancelled the context of the only loop, the loop
\* eventually returns - it does not take ready ticks instead of the
\* cancellation for ever - and no check in flight is cut short by the
\* cancellation.
C19_LoopTerminates ==
    /\ \A k \in 1..MaxStarts :
          (k \in LoopIds /\ loops[k].done) ~> (k \in LoopIds /\ loops[k].pc = "exit")
    /\ [][NoProbeInterrupted]_vars

C19_Witness ==
    \E k \in LoopIds :
        /\ loops[k].done /\ loops[k].pc = "exit"
        /\ loops[k].late /\ loops[k].kind = "tick"
        /\ loops[k].tick
        /\ \A i \in loops[k].ns : loops[k].res[i] \in {"ok", "fail"}

\* ============================================================== SpecCoerce
\* The filters on candidates that never failed or were reset (count 0, with
\* any failure time) and on candidates that failed once, under filter values
\* and metadata overrides that are unset, negative or positive.
CoerceRecent == PureNow - 1

ZeroCountCands ==
    {Cand(1, TRUE, 0, t, FALSE, FALSE, 0, FALSE, 0, FALSE) :
        t \in {Epoch, CoerceRecent}}
    \cup
    {Cand(1, TRUE, 0, t, TRUE, TRUE, mf, FALSE, 0, FALSE) :
        t \in {Epoch, CoerceRecent}, mf \in {-1, 0}}
    \cup
    {Cand(1, TRUE, 0, t, TRUE, FALSE, 0, TRUE, -1, FALSE) :
        t \in {Epoch, CoerceRecent}}

FailedOnceCands ==
    {Cand(1, TRUE, 1, CoerceRecent, FALSE, FALSE, 0, FALSE, 0, FALSE),
     Cand(1, TRUE, 1, CoerceRecent, TRUE, TRUE, -1, FALSE, 0, FALSE),
     Cand(1, TRUE, 1, PureNow - DefaultFailTimeout, TRUE, FALSE, 0, TRUE, -1,
          FALSE)}

CoerceCfgs ==
    [strategy : {"rr"}, healthCheck : {FALSE},
     maxFails : {-1, 0, 2}, failTimeout : {-1, 0, DefaultFailTimeout + 1}]

InitCoerce ==
    /\ RRIdle
    /\ LoopIdle
    /\ SysIdle
    /\ now = PureNow
    /\ cfg \in CoerceCfgs
    /\ pIn \in ListsOver(ZeroCountCands \cup FailedOnceCands, MaxLen)
    /\ pOut = [kind |-> "none", out |-> <<>>, again |-> <<>>]

SpecCoerce == InitCoerce /\ [][NextPure]_vars

\* ---------------------------------------------------- claims on SpecCoerce
\* The maxFails and failTimeout configured for v, before any coercion.
ConfMaxFails(v) == IF v.md /\ v.hasMaxFails THEN v.mdMaxFails ELSE cfg.maxFails

ConfFailTimeout(v) ==
    IF v.md /\ v.hasFailTimeout THEN v.mdFailTimeout ELSE cfg.failTimeout

\* A candidate with marker count 0 is in the output of either filter.
ZeroCountKept ==
    pOut.kind \in {"fail", "health"} =>
        \A v \in Range(pIn) : (v.markable /\ v.count = 0) => InOut(v)

\* Non-positive values act as max-fails 1 and the default fail timeout: a
\* candidate that failed once under them is kept by FailFilter exactly when
\* its failure is DefaultFailTimeout old, and dropped by HealthCheckFilter
\* whenever another candidate is kept.
NonPositiveCoerced ==
    Len(pIn) >= 2 =>
        \A v \in Range(pIn) : (v.markable /\ v.count >= 1) =>
            /\ (pOut.kind = "fail" /\ ConfMaxFails(v) <= 0
                  /\ ConfFailTimeout(v) <= 0) =>
                  (InOut(v) <=> Since(now, v.time) >= DefaultFailTimeout)
            /\ (pOut.kind = "health" /\ cfg.maxFails <= 0
                  /\ \E w \in Range(pIn) : w.count = 0) => ~InOut(v)

\* C20: a candidate whose marker count is 0 is kept by FailFilter and by
\* HealthCheckFilter whatever its last-failure time and whatever max-fails
\* and fail-timeout are configured on the filter or the candidate, the
\* non-positive ones included, which act as max-fails 1 and the default
\* fail timeout.
C20_ZeroCountKept == ZeroCountKept /\ NonPositiveCoerced

C20_Witness ==
    /\ pOut.kind = "fail"
    /\ cfg.maxFails = -1 /\ cfg.failTimeout = -1
    /\ Len(pIn) = 2
    /\ pIn[1].count = 0 /\ pIn[1].time = CoerceRecent
    /\ pIn[1].hasMaxFails /\ pIn[1].mdMaxFails = 0
    /\ pIn[2].count = 1 /\ ~pIn[2].md
    /\ pOut.out = <<pIn[1]>>
====
